---- MODULE Spec2Model ----
(***************************************************************************)
(* Byte range locks (src/test.rs, module file_byte_range_locks).           *)
(*                                                                         *)
(* The lock table of one file is the struct Locks: a name and the sorted   *)
(* map locked_regions from ByteRange to Lock.  Its two operations are      *)
(* Locks::set_lock and Locks::unset_lock.  In the source both bodies are   *)
(* a single expression: set_lock evaluates to Ok(true) and unset_lock to   *)
(* Ok(()), whatever the arguments, and neither reads nor writes            *)
(* locked_regions.  The model keeps exactly that behaviour.                *)
(*                                                                         *)
(* The caller of the table is modelled after the test                      *)
(* two_write_locks_exclude: a straight sequence of set_lock / unset_lock   *)
(* calls whose results are looked at.  The variable calls is that          *)
(* sequence, every call with the value it returned.                        *)
(*                                                                         *)
(* The sorted-vector map (src/vector_map.rs, module vector_map) is the     *)
(* struct VectorMap: root is a vector of items kept sorted by key.  Its    *)
(* operations are new, clear, len, is_empty, get and insert, all built on  *)
(* binary_search.  The variable vm is the last call made on the map with   *)
(* the value it returned.  The map has its own specification, SpecVM.      *)
(***************************************************************************)
EXTENDS Integers, Sequences, FiniteSets, TLC

VARIABLES locked_regions, calls, root, vm

vars == <<locked_regions, calls, root, vm>>

\* The state of the lock table and of its caller.
lockVars == <<locked_regions, calls>>

\* The state of the sorted-vector map and of its caller.
mapVars == <<root, vm>>

\* ------------------------------------------------------------------ bounds
\* Largest byte offset a caller uses as a start or an end of a range.
MaxOff == 3
\* File descriptors in use are 1 .. MaxFd.
MaxFd == 2
\* Number of calls a caller sequence makes.
MaxCalls == 3

\* ------------------------------------------------------------------- types
\* pub type FileDescriptor = i32
FileDescriptor == 1 .. MaxFd

\* type ByteRange = (u64, u64): start offset (inclusive), end offset (exclusive).
\* Every pair is a value of the type, end <= start included.
ByteRange == (0 .. MaxOff) \X (0 .. MaxOff)

\* enum Lock { Shared(Vec<FileDescriptor>), Exclusive(FileDescriptor) }
Shared(fds) == [kind |-> "Shared", fds |-> fds]
Exclusive(fd) == [kind |-> "Exclusive", fds |-> {fd}]

\* enum UnsetLockError { NotFound }: the one error unset_lock's type can carry.
UnsetLockError == {"Err(NotFound)"}

\* Result<bool, ()>, the return type of set_lock.
SetLockResult == {"Ok(true)", "Ok(false)", "Err(())"}

\* Result<(), UnsetLockError>, the return type of unset_lock.
UnsetLockResult == {"Ok(())"} \cup UnsetLockError


\* ------------------------------------------------------- sorted-vector map
\* Keys given to the map are 0 .. MaxKey.
MaxKey == 4
\* Values given to the map are 1 .. MaxValue.
MaxValue == 2

\* K: Ord, the keys of the map.
Key == 0 .. MaxKey

\* V, the values of the map.
Value == 1 .. MaxValue

\* struct VectorMapItem<K, V> { key, value }
VectorMapItem(key, value) == [key |-> key, value |-> value]

\* VectorMap::new: root is an empty Vec.
VectorMapNew == << >>

\* -------------------------------------------------------------- operations
\* Locks::new: locked_regions is an empty BTreeMap (a function with empty domain).
New == [r \in {} |-> Exclusive(1)]

\* The value set_lock returns: its body is the expression Ok(true).
SetLockReturn(regions, fd, range, exclusive) == "Ok(true)"

\* locked_regions after set_lock: the body never touches self.
SetLockRegions(regions, fd, range, exclusive) == regions

\* The value unset_lock returns: its body is the expression Ok(()).
UnsetLockReturn(regions, fd, range) == "Ok(())"

\* locked_regions after unset_lock: the body never touches self.
UnsetLockRegions(regions, fd, range) == regions

Init ==
    /\ locked_regions = New
    /\ calls = << >>
    /\ root = VectorMapNew
    /\ vm = [op |-> "new", key |-> 0, value |-> 0, ret |-> [kind |-> "Unit"]]

\* pub fn set_lock(&mut self, fd, range, exclusive) -> Result<bool, ()>
set_lock(fd, range, exclusive) ==
    /\ Len(calls) < MaxCalls
    /\ locked_regions' = SetLockRegions(locked_regions, fd, range, exclusive)
    /\ calls' = Append(calls,
                  [op |-> "set_lock", fd |-> fd, range |-> range,
                   exclusive |-> exclusive,
                   ret |-> SetLockReturn(locked_regions, fd, range, exclusive)])
    /\ UNCHANGED mapVars

\* pub fn unset_lock(&mut self, fd, range) -> Result<(), UnsetLockError>
unset_lock(fd, range) ==
    /\ Len(calls) < MaxCalls
    /\ locked_regions' = UnsetLockRegions(locked_regions, fd, range)
    /\ calls' = Append(calls,
                  [op |-> "unset_lock", fd |-> fd, range |-> range,
                   exclusive |-> FALSE,
                   ret |-> UnsetLockReturn(locked_regions, fd, range)])
    /\ UNCHANGED mapVars

SetLock == \E fd \in FileDescriptor, range \in ByteRange, exclusive \in BOOLEAN :
              set_lock(fd, range, exclusive)

UnsetLock == \E fd \in FileDescriptor, range \in ByteRange :
              unset_lock(fd, range)

Next == SetLock \/ UnsetLock

Spec == Init /\ [][Next]_vars


\* ------------------------------------------- operations of the vector map
\* slice::binary_search_by, the search VectorMap::binary_search delegates to,
\* with the comparison |x| x.key.cmp(key).  Indices are 0-based as in the
\* source; s[ix + 1] is the source's s[ix].
RECURSIVE BinarySearchBy(_, _, _, _)
BinarySearchBy(s, key, base, lim) ==
    IF lim = 0 THEN [kind |-> "Err", index |-> base]
    ELSE LET ix == base + (lim \div 2)
         IN  IF s[ix + 1].key = key THEN [kind |-> "Ok", index |-> ix]
             ELSE IF s[ix + 1].key < key
                  THEN BinarySearchBy(s, key, ix + 1, (lim - 1) \div 2)
                  ELSE BinarySearchBy(s, key, base, lim \div 2)

\* fn binary_search(&self, key: &K) -> Result<usize, usize>
binary_search(r, key) == BinarySearchBy(r, key, 0, Len(r))

\* pub fn len(&self) -> usize
len(r) == Len(r)

\* pub fn is_empty(&self) -> bool
is_empty(r) == Len(r) = 0

\* Vec::insert(index, item): the items from index on move one place up.
VecInsert(r, index, item) ==
    SubSeq(r, 1, index) \o <<item>> \o SubSeq(r, index + 1, Len(r))

\* insert with the new item pushed at the end of root instead of placed at the
\* insertion point.
InsertRootPush(r, key, value) ==
    LET found == binary_search(r, key)
    IN  IF found.kind = "Err"
        THEN Append(r, VectorMapItem(key, value))
        ELSE [r EXCEPT ![found.index + 1].value = value]

\* root after insert: a new item at the insertion point, or the value of the
\* matching item swapped for the new one.
InsertRoot(r, key, value) ==
    LET found == binary_search(r, key)
    IN  IF found.kind = "Err"
        THEN VecInsert(r, found.index, VectorMapItem(key, value))
        ELSE [r EXCEPT ![found.index + 1].value = value]

\* The value insert returns: None, or Some(the value formerly there).
InsertReturn(r, key, value) ==
    LET found == binary_search(r, key)
    IN  IF found.kind = "Err"
        THEN [kind |-> "None"]
        ELSE [kind |-> "Some", value |-> r[found.index + 1].value]

\* The value get returns: Ok(&root[index]) or Err(&root[index]); indexing
\* root at or past its length panics.
GetReturn(r, key) ==
    LET found == binary_search(r, key)
    IN  IF found.index >= Len(r)
        THEN [kind |-> "Panic"]
        ELSE [kind |-> found.kind, item |-> r[found.index + 1]]

\* A panic unwinds the caller: no call follows it.
Running == vm.ret.kind # "Panic"

\* pub fn insert(&mut self, key: K, value: V) -> Option<V>
insert(key, value) ==
    /\ Running
    /\ root' = InsertRoot(root, key, value)
    /\ vm' = [op |-> "insert", key |-> key, value |-> value,
              ret |-> InsertReturn(root, key, value)]
    /\ UNCHANGED lockVars

\* pub fn get(&self, key: &K) -> Result<&VectorMapItem, &VectorMapItem>
get(key) ==
    /\ Running
    /\ root' = root
    /\ vm' = [op |-> "get", key |-> key, value |-> 0, ret |-> GetReturn(root, key)]
    /\ UNCHANGED lockVars

\* pub fn clear(&mut self)
clear ==
    /\ Running
    /\ root' = << >>
    /\ vm' = [op |-> "clear", key |-> 0, value |-> 0, ret |-> [kind |-> "Unit"]]
    /\ UNCHANGED lockVars

Insert == \E key \in Key, value \in Value : insert(key, value)

Get == \E key \in Key : get(key)

NextVM == Insert \/ Get \/ clear

SpecVM == Init /\ [][NextVM]_vars

TypeOK ==
    /\ DOMAIN locked_regions \subseteq ByteRange
    /\ Len(calls) <= MaxCalls
    /\ \A i \in 1 .. Len(calls) :
          /\ calls[i].fd \in FileDescriptor
          /\ calls[i].range \in ByteRange
          /\ calls[i].op = "set_lock" => calls[i].ret \in SetLockResult
          /\ calls[i].op = "unset_lock" => calls[i].ret \in UnsetLockResult
    /\ \A i \in 1 .. Len(root) : root[i].key \in Key /\ root[i].value \in Value
    /\ vm.op \in {"new", "insert", "get", "clear"}

\* ------------------------------------------------- vocabulary of the claims
\* A well-formed range: end > start.
Valid(range) == range[2] > range[1]

\* The byte positions a range covers (none when the range is malformed).
Bytes(range) == {b \in 0 .. MaxOff : range[1] <= b /\ b < range[2]}

\* Two ranges intersect: stored.start < query.end /\ stored.end > query.start.
Overlaps(r, q) == r[1] < q[2] /\ r[2] > q[1]

\* Range q lies inside range r.
Within(q, r) == r[1] <= q[1] /\ q[2] <= r[2]

\* The error a malformed range is answered with.  set_lock's error type is (),
\* so the value is Err(()); unset_lock's error type has no such variant.
InvalidRange(op) == IF op = "set_lock" THEN "Err(())" ELSE "Err(InvalidRange)"

\* Call i is a set_lock with a well-formed range that was granted.
Granted(i) ==
    /\ calls[i].op = "set_lock"
    /\ Valid(calls[i].range)
    /\ calls[i].ret = "Ok(true)"

\* The most recent call of fd among the first n calls (0: fd has not called).
LastCallOf(fd, n) ==
    LET mine == {i \in 1 .. n : calls[i].fd = fd}
    IN  IF mine = {} THEN 0 ELSE CHOOSE i \in mine : \A j \in mine : j <= i

\* After the first n calls fd holds byte b in the given mode: fd's most recent
\* call was a granted set_lock of that mode covering b.  Nothing of fd's came
\* after it that could have released or replaced the holding, and no other
\* holder's call can take it away.
Holds(n, fd, b, exclusive) ==
    LET i == LastCallOf(fd, n)
    IN  /\ i > 0
        /\ Granted(i)
        /\ calls[i].exclusive = exclusive
        /\ b \in Bytes(calls[i].range)

\* An entry of the table attributable in whole or part to fd.
Attributable(lock, fd) == fd \in lock.fds

\* -------------------------------------------------------------------- C1
\* C1: mutual exclusion.  After any sequence of acquire and release calls
\* with valid ranges there is no byte that one holder holds exclusively
\* while a different holder holds it too, shared or exclusive.
C1_MutualExclusion ==
    \A h1 \in FileDescriptor, h2 \in FileDescriptor, b \in 0 .. MaxOff :
        h1 # h2 =>
            ~ /\ Holds(Len(calls), h1, b, TRUE)
              /\ \E x \in BOOLEAN : Holds(Len(calls), h2, b, x)

\* -------------------------------------------------------------------- C2
\* C2: an exclusive acquire with a valid range is granted exactly when no
\* other holder holds part of the range.  So it answers Ok(false) when
\* another holder holds a byte of the range, it answers Ok(true) when no
\* other holder has been granted anything so far, and from the empty table
\* two distinct holders acquiring disjoint ranges are both granted.
C2_ExclusiveGrantedIffNoOtherHolder ==
    /\ \A i \in 1 .. Len(calls) :
          (calls[i].op = "set_lock" /\ calls[i].exclusive /\ Valid(calls[i].range)) =>
              /\ (\E g \in FileDescriptor \ {calls[i].fd}, b \in Bytes(calls[i].range),
                     x \in BOOLEAN : Holds(i - 1, g, b, x))
                   => calls[i].ret = "Ok(false)"
              /\ (\A j \in 1 .. i - 1 : calls[j].fd = calls[i].fd \/ ~Granted(j))
                   => calls[i].ret = "Ok(true)"
    /\ (/\ Len(calls) >= 2
        /\ \A i \in 1 .. 2 : calls[i].op = "set_lock" /\ calls[i].exclusive
                               /\ Valid(calls[i].range)
        /\ calls[1].fd # calls[2].fd
        /\ ~Overlaps(calls[1].range, calls[2].range))
       => (calls[1].ret = "Ok(true)" /\ calls[2].ret = "Ok(true)")

\* -------------------------------------------------------------------- C3
\* C3: a denied acquire is an atomic no-op: a step whose call answers
\* Ok(false) leaves locked_regions as it was.  (set_lock never answers
\* Ok(false), so no step of the model exercises this.)
C3_DeniedIsNoOp ==
    [][calls'[Len(calls')].ret = "Ok(false)" => locked_regions' = locked_regions]_vars

\* A state in which an acquire has been denied.
C3_Denied == \E i \in 1 .. Len(calls) : calls[i].ret = "Ok(false)"

\* -------------------------------------------------------------------- C4
\* C4: partition invariant: the stored keys are pairwise non-overlapping and
\* no two touching entries carry the same record.  (locked_regions is never
\* written, so no reachable table has an entry this speaks about.)
C4_PartitionInvariant ==
    \A k1 \in DOMAIN locked_regions, k2 \in DOMAIN locked_regions :
        k1 # k2 =>
            /\ ~Overlaps(k1, k2)
            /\ k1[2] = k2[1] => locked_regions[k1] # locked_regions[k2]

\* A table with two entries, the least the partition invariant speaks about.
C4_TwoEntries == Cardinality(DOMAIN locked_regions) >= 2

\* -------------------------------------------------------------------- C5
\* C5: re-locking narrows.  When h holds exclusive [s,e) and next asks for
\* exclusive [s,e') with s < e' < e, the call is granted and h then holds
\* only [s,e'): an exclusive acquire by another holder issued next is granted
\* inside [e',e) and denied when it overlaps [s,e').
C5_RelockNarrows ==
    \A i \in 1 .. Len(calls) - 1 :
        LET first == calls[i]
            again == calls[i + 1]
        IN  (/\ Granted(i) /\ first.exclusive
             /\ again.op = "set_lock" /\ again.exclusive /\ again.fd = first.fd
             /\ again.range[1] = first.range[1]
             /\ again.range[1] < again.range[2]
             /\ again.range[2] < first.range[2])
            => /\ again.ret = "Ok(true)"
               /\ (i + 2 <= Len(calls)) =>
                    LET other == calls[i + 2]
                        freed == <<again.range[2], first.range[2]>>
                    IN  (/\ other.op = "set_lock" /\ other.exclusive
                         /\ other.fd # first.fd /\ Valid(other.range))
                        => /\ Within(other.range, freed) => other.ret = "Ok(true)"
                           /\ Overlaps(other.range, again.range) => other.ret = "Ok(false)"

\* -------------------------------------------------------------------- C6
\* C6: adjacent merge.  Starting from the empty table, when h is granted
\* exclusive [b,c) and then exclusive [a,b) (or [c,d)), the table holds one
\* entry Exclusive(h) over the union and nothing else; an over-covering
\* release by h issued next succeeds and leaves the table empty.
C6_AdjacentMerge ==
    (/\ Len(calls) >= 2
     /\ Granted(1) /\ calls[1].exclusive
     /\ Granted(2) /\ calls[2].exclusive
     /\ calls[2].fd = calls[1].fd
     /\ (calls[2].range[2] = calls[1].range[1] \/ calls[2].range[1] = calls[1].range[2]))
    => LET lo == IF calls[1].range[1] < calls[2].range[1]
                 THEN calls[1].range[1] ELSE calls[2].range[1]
           hi == IF calls[1].range[2] > calls[2].range[2]
                 THEN calls[1].range[2] ELSE calls[2].range[2]
       IN  /\ Len(calls) = 2 =>
                /\ DOMAIN locked_regions = {<<lo, hi>>}
                /\ locked_regions[<<lo, hi>>] = Exclusive(calls[1].fd)
           /\ (/\ Len(calls) = 3
               /\ calls[3].op = "unset_lock" /\ calls[3].fd = calls[1].fd
               /\ Within(<<lo, hi>>, calls[3].range))
              => /\ calls[3].ret = "Ok(())"
                 /\ DOMAIN locked_regions = {}

\* -------------------------------------------------------------------- C7
\* C7: a release with a valid range fails with NotFound exactly when no
\* entry of the table overlapping the range is attributable to the holder;
\* NotFound is its only error, and on NotFound the table is unchanged.
C7_ReleaseNotFoundIffNothingHeld ==
    [][LET c == calls'[Len(calls')]
       IN  (c.op = "unset_lock" /\ Valid(c.range)) =>
             /\ c.ret \in {"Ok(())", "Err(NotFound)"}
             /\ c.ret = "Err(NotFound)" <=>
                  ~ \E k \in DOMAIN locked_regions :
                        Overlaps(k, c.range) /\ Attributable(locked_regions[k], c.fd)
             /\ c.ret = "Err(NotFound)" => locked_regions' = locked_regions
      ]_vars

\* -------------------------------------------------------------------- C8
\* C8: double release is an error.  After release(h, r) has succeeded, the
\* same release issued again with no acquire by h in between fails with
\* NotFound.
C8_DoubleReleaseNotFound ==
    \A i \in 1 .. Len(calls), j \in 1 .. Len(calls) :
        (/\ i < j
         /\ calls[i].op = "unset_lock" /\ calls[i].ret = "Ok(())"
         /\ Valid(calls[i].range)
         /\ calls[j].op = "unset_lock"
         /\ calls[j].fd = calls[i].fd /\ calls[j].range = calls[i].range
         /\ \A k \in i + 1 .. j - 1 :
               ~(calls[k].op = "set_lock" /\ calls[k].fd = calls[i].fd))
        => calls[j].ret = "Err(NotFound)"

\* -------------------------------------------------------------------- C9
\* C9: shared compatibility.  A shared acquire with a valid range is denied
\* exactly when another holder holds part of the range exclusively: it
\* answers Ok(false) when another holder holds a byte of the range
\* exclusively, and Ok(true) when no other holder has been granted an
\* exclusive lock so far, whatever shared locks are held.
C9_SharedDeniedIffOtherExclusive ==
    \A i \in 1 .. Len(calls) :
        (calls[i].op = "set_lock" /\ ~calls[i].exclusive /\ Valid(calls[i].range)) =>
            /\ (\E g \in FileDescriptor \ {calls[i].fd}, b \in Bytes(calls[i].range) :
                   Holds(i - 1, g, b, TRUE))
                 => calls[i].ret = "Ok(false)"
            /\ (\A j \in 1 .. i - 1 :
                   calls[j].fd = calls[i].fd \/ ~(Granted(j) /\ calls[j].exclusive))
                 => calls[i].ret = "Ok(true)"

\* ------------------------------------------------------------------- C10
\* C10: malformed ranges are rejected untouched.  A set_lock or unset_lock
\* called with end <= start answers the InvalidRange error and leaves the
\* table unchanged.
C10_MalformedRejected ==
    [][LET c == calls'[Len(calls')]
       IN  ~Valid(c.range) =>
             /\ c.ret = InvalidRange(c.op)
             /\ locked_regions' = locked_regions
      ]_vars

\* --------------------------------------------- the table read byte by byte
\* In the table regions, fd holds byte b in the given mode: an entry covering
\* b is attributable to fd and is of that mode.
TableHolds(regions, fd, b, exclusive) ==
    \E k \in DOMAIN regions :
        /\ b \in Bytes(k)
        /\ Attributable(regions[k], fd)
        /\ regions[k].kind = (IF exclusive THEN "Exclusive" ELSE "Shared")

\* The fds the table regions records as holding byte b.
HoldersAt(regions, b) ==
    UNION {regions[k].fds : k \in {k \in DOMAIN regions : b \in Bytes(k)}}

\* ------------------------------------------------------------------- C11
\* C11: supersede, not union.  A granted acquire(h, r, mode) leaves h holding
\* every byte of r in that mode, and no byte outside r that lay in an entry
\* which overlapped r and was attributable to h before the call.
C11_Supersede ==
    [][LET c == calls'[Len(calls')]
       IN  (c.op = "set_lock" /\ Valid(c.range) /\ c.ret = "Ok(true)") =>
             \A b \in 0 .. MaxOff :
                /\ b \in Bytes(c.range) =>
                     /\ TableHolds(locked_regions', c.fd, b, c.exclusive)
                     /\ ~TableHolds(locked_regions', c.fd, b, ~c.exclusive)
                /\ (/\ b \notin Bytes(c.range)
                    /\ \E k \in DOMAIN locked_regions :
                          /\ Overlaps(k, c.range)
                          /\ Attributable(locked_regions[k], c.fd)
                          /\ b \in Bytes(k))
                   => \A x \in BOOLEAN : ~TableHolds(locked_regions', c.fd, b, x)
      ]_vars

\* ------------------------------------------------------------------- C12
\* C12: overlap extends.  Starting from the empty table, when h is granted
\* exclusive [a,b) and then exclusive [c,d) with a < c < b < d, h holds every
\* byte of the union [a,d) exclusively.
C12_OverlapExtends ==
    (/\ Len(calls) = 2
     /\ Granted(1) /\ calls[1].exclusive
     /\ Granted(2) /\ calls[2].exclusive
     /\ calls[2].fd = calls[1].fd
     /\ calls[1].range[1] < calls[2].range[1]
     /\ calls[2].range[1] < calls[1].range[2]
     /\ calls[1].range[2] < calls[2].range[2])
    => \A b \in Bytes(<<calls[1].range[1], calls[2].range[2]>>) :
           TableHolds(locked_regions, calls[1].fd, b, TRUE)

\* ------------------------------------------------------------------- C13
\* C13: a partial release of an exclusive holding splits it.  Starting from
\* the empty table, when h is granted exclusive [a,b) and then releases a
\* range r overlapping it, the release succeeds and the table holds exactly
\* the parts of [a,b) outside r, each as an entry Exclusive(h): one entry
\* after a prefix or suffix release, two after a strict-middle release, none
\* after a release covering the whole entry.
C13_PartialReleaseSplits ==
    (/\ Len(calls) = 2
     /\ Granted(1) /\ calls[1].exclusive
     /\ calls[2].op = "unset_lock" /\ calls[2].fd = calls[1].fd
     /\ Valid(calls[2].range)
     /\ Overlaps(calls[2].range, calls[1].range))
    => LET held == calls[1].range
           r == calls[2].range
           left == IF held[1] < r[1] THEN {<<held[1], r[1]>>} ELSE {}
           right == IF r[2] < held[2] THEN {<<r[2], held[2]>>} ELSE {}
       IN  /\ calls[2].ret = "Ok(())"
           /\ DOMAIN locked_regions = left \cup right
           /\ \A k \in DOMAIN locked_regions :
                 locked_regions[k] = Exclusive(calls[1].fd)

\* ------------------------------------------------------------------- C14
\* C14: release from a Shared entry.  Starting from the empty table, when g
\* and then h (h # g) are granted shared locks on the same range r0 and h
\* then releases a range r overlapping r0, the release succeeds and h is
\* gone from the holders of the bytes r covers only: outside r the holders
\* of r0 are still g and h, inside r they are g alone.  When h was the only
\* holder, nothing is left of the entry inside r.
C14_SharedRelease ==
    /\ (/\ Len(calls) = 3
        /\ Granted(1) /\ ~calls[1].exclusive
        /\ Granted(2) /\ ~calls[2].exclusive
        /\ calls[2].fd # calls[1].fd /\ calls[2].range = calls[1].range
        /\ calls[3].op = "unset_lock" /\ calls[3].fd = calls[2].fd
        /\ Valid(calls[3].range) /\ Overlaps(calls[3].range, calls[1].range))
       => /\ calls[3].ret = "Ok(())"
          /\ \A k \in DOMAIN locked_regions : locked_regions[k].kind = "Shared"
          /\ \A b \in 0 .. MaxOff :
                HoldersAt(locked_regions, b) =
                    IF b \notin Bytes(calls[1].range) THEN {}
                    ELSE IF b \in Bytes(calls[3].range) THEN {calls[1].fd}
                    ELSE {calls[1].fd, calls[2].fd}
    /\ (/\ Len(calls) = 2
        /\ Granted(1) /\ ~calls[1].exclusive
        /\ calls[2].op = "unset_lock" /\ calls[2].fd = calls[1].fd
        /\ Valid(calls[2].range) /\ Overlaps(calls[2].range, calls[1].range))
       => /\ calls[2].ret = "Ok(())"
          /\ \A k \in DOMAIN locked_regions :
                /\ locked_regions[k] = Shared({calls[1].fd})
                /\ ~Overlaps(k, calls[2].range)
          /\ \A b \in 0 .. MaxOff :
                HoldersAt(locked_regions, b) =
                    IF b \in Bytes(calls[1].range) \ Bytes(calls[2].range)
                    THEN {calls[1].fd} ELSE {}

\* ------------------------------------------------------------------- C15
\* C15: operations by one holder never change what other holders hold.  A
\* step that is a granted acquire or a successful release by h leaves, for
\* every other holder g and every byte, g's holding and its mode as they
\* were.  (locked_regions is never written and records no holding, so no
\* step of the model has another holder's entry to preserve.)
C15_OthersUnchanged ==
    [][LET c == calls'[Len(calls')]
       IN  (Valid(c.range) /\ c.ret \in {"Ok(true)", "Ok(())"}) =>
             \A g \in FileDescriptor \ {c.fd}, b \in 0 .. MaxOff, x \in BOOLEAN :
                TableHolds(locked_regions', g, b, x) <=> TableHolds(locked_regions, g, b, x)
      ]_vars

\* A table in which some holder has an entry, the least C15 has to preserve.
C15_SomeEntry == DOMAIN locked_regions # {}

\* ------------------------------------------------------------------- C16
\* C16: no empty records.  Every entry of the table names at least one
\* holder.  (locked_regions is never written, so no reachable table has an
\* entry this speaks about.)
C16_NoEmptyRecords ==
    \A k \in DOMAIN locked_regions : locked_regions[k].fds # {}

\* ------------------------------------------------------------------- C17
\* C17: same-holder shared over own exclusive.  Starting from the empty
\* table, when h is granted exclusive r1 and then asks for a shared lock on
\* a range r2 overlapping r1, the call answers Ok(true) and the overlapped
\* bytes are then held in shared mode with h among their holders.
C17_SharedOverOwnExclusive ==
    (/\ Len(calls) = 2
     /\ Granted(1) /\ calls[1].exclusive
     /\ calls[2].op = "set_lock" /\ ~calls[2].exclusive
     /\ calls[2].fd = calls[1].fd
     /\ Valid(calls[2].range) /\ Overlaps(calls[2].range, calls[1].range))
    => /\ calls[2].ret = "Ok(true)"
       /\ \A b \in Bytes(calls[1].range) \cap Bytes(calls[2].range) :
             TableHolds(locked_regions, calls[1].fd, b, FALSE)

\* ------------------------------------------------------------------- C18
\* C18: with every operation on the table atomic (set_lock takes &mut self,
\* and every step of Spec is one whole call), no interleaving of calls ends
\* with two exclusive acquires of different holders on overlapping ranges
\* both granted while the first grant is still in force (its holder made no
\* call in between).
C18_AtomicAcquiresExclude ==
    \A i \in 1 .. Len(calls), j \in 1 .. Len(calls) :
        (/\ i < j
         /\ Granted(i) /\ calls[i].exclusive
         /\ calls[j].op = "set_lock" /\ calls[j].exclusive /\ Valid(calls[j].range)
         /\ calls[j].fd # calls[i].fd
         /\ Overlaps(calls[i].range, calls[j].range)
         /\ LastCallOf(calls[i].fd, j - 1) = i)
        => calls[j].ret # "Ok(true)"

\* ------------------------------------------------------------------- C19
\* The keys of r in strictly ascending order.
StrictlyAscending(r) == \A i \in 1 .. Len(r) - 1 : r[i].key < r[i + 1].key

\* The items of r as a set.
Items(r) == {r[i] : i \in 1 .. Len(r)}

\* C19: insert keeps the map a sorted set of unique keys.  After any sequence
\* of insert, get and clear calls the stored keys are strictly ascending.  An
\* insert of an absent key returns None, raises len by one and adds just the
\* new item; an insert of a present key returns Some(previous value),
\* replaces the value in place and leaves len and the other items as they
\* were; clear leaves the map empty.
C19_InsertKeepsSortedUnique ==
    /\ [] StrictlyAscending(root)
    /\ [][/\ vm'.op = "insert" =>
               LET at == {i \in 1 .. Len(root) : root[i].key = vm'.key}
                   item == VectorMapItem(vm'.key, vm'.value)
               IN  IF at = {}
                   THEN /\ vm'.ret = [kind |-> "None"]
                        /\ len(root') = len(root) + 1
                        /\ Items(root') = Items(root) \cup {item}
                   ELSE /\ \A i \in at :
                              /\ vm'.ret = [kind |-> "Some", value |-> root[i].value]
                              /\ root' = [root EXCEPT ![i] = item]
                        /\ len(root') = len(root)
          /\ vm'.op = "clear" => (is_empty(root') /\ len(root') = 0)
         ]_vars

\* An insert has replaced the value of a present key, in the middle of a map
\* of at least three items, by a different value.
C19_Replaced ==
    /\ vm.op = "insert" /\ vm.ret.kind = "Some" /\ vm.ret.value # vm.value
    /\ \E i \in 2 .. Len(root) - 1 : root[i] = VectorMapItem(vm.key, vm.value)

\* ------------------------------------------------------------------- C20
\* C20: get is total.  For every map and key, get returns Ok with the item
\* stored under the key when the key is present, and otherwise Err with a
\* stored item; it never fails, the empty map and a key above every stored
\* key included.
C20_GetTotal ==
    vm.op = "get" =>
        LET at == {i \in 1 .. Len(root) : root[i].key = vm.key}
        IN  /\ vm.ret.kind # "Panic"
            /\ IF at # {}
               THEN \A i \in at : vm.ret = [kind |-> "Ok", item |-> root[i]]
               ELSE vm.ret.kind = "Err" /\ vm.ret.item \in Items(root)
====
